---- MODULE Spec2Model ----
(***************************************************************************)
(* A model of the Sudoku solver of src/src/sudoku.rs: the propagation      *)
(* engine of SudokuSolver (entry insertion, hidden singles, guess          *)
(* selection, retraction) as operators, and the recursive search drivers   *)
(* (_solve_at_most, _randomized_solve_one) as a state machine over an      *)
(* explicit stack of solver frames.                                        *)
(***************************************************************************)
EXTENDS Integers, Sequences, FiniteSets, TLC

(***************************************************************************)
(* Zone topology and constants (modules consts and positions).             *)
(***************************************************************************)
N_CELLS == 81

ROW_OFFSET == 0

COL_OFFSET == 9

FIELD_OFFSET == 18

N_ZONES == 27

Cells == 0..(N_CELLS - 1)

Digits == 1..9

row(cell) == cell \div 9

col(cell) == cell % 9

field(cell) == (row(cell) \div 3) * 3 + (col(cell) \div 3)

row_zone(cell) == row(cell) + ROW_OFFSET

col_zone(cell) == col(cell) + COL_OFFSET

field_zone(cell) == field(cell) + FIELD_OFFSET

\* the 9 member cells of a zone, in ascending order
cells_of_zone ==
  [zone \in 0..(N_ZONES - 1) |->
     [i \in 1..9 |->
        IF zone < COL_OFFSET THEN 9 * (zone - ROW_OFFSET) + (i - 1)
        ELSE IF zone < FIELD_OFFSET THEN 9 * (i - 1) + (zone - COL_OFFSET)
        ELSE LET b == zone - FIELD_OFFSET
             IN  ((b \div 3) * 3 + ((i - 1) \div 3)) * 9 + (b % 3) * 3 + ((i - 1) % 3)]]

IsNeighbour(a, b) ==
  a # b /\ (row(a) = row(b) \/ col(a) = col(b) \/ field(a) = field(b))

\* the 20 constraint neighbours of a cell, in ascending order
neighbours ==
  [cell \in Cells |->
     SelectSeq([i \in 1..N_CELLS |-> i - 1], LAMBDA x : IsNeighbour(cell, x))]

(***************************************************************************)
(* Candidate masks (type Mask<Digit>): a set of digits.                    *)
(***************************************************************************)
MaskALL == Digits

MaskNONE == {}

n_possibilities(mask) == Cardinality(mask)

\* the lowest set digit
one_possibility(mask) == CHOOSE d \in mask : \A e \in mask : d <= e

\* the digit at position i (from 0) of the ascending iteration
MaskNth(mask, i) == CHOOSE d \in mask : Cardinality({e \in mask : e < d}) = i

\* unique_num: Err(Unsolvable) on the empty mask, Ok(Some(d)) on a
\* singleton, Ok(None) otherwise
unique_num(mask) ==
  IF mask = MaskNONE THEN "Err"
  ELSE IF Cardinality(mask) = 1 THEN "Some"
  ELSE "None"

Entry(cell, num) == [cell |-> cell, num |-> num]

(***************************************************************************)
(* SudokuSolver                                                            *)
(***************************************************************************)
SolverNew ==
  [grid               |-> [c \in Cells |-> 0],
   n_solved_cells     |-> 0,
   cell_poss_digits   |-> [c \in Cells |-> MaskALL],
   zone_solved_digits |-> [z \in 0..(N_ZONES - 1) |-> MaskNONE],
   last_cell          |-> 0]

\* the entries of the nonzero cells, in cell order
stack_from_sudoku(sudoku) ==
  LET all == [i \in 1..N_CELLS |-> Entry(i - 1, sudoku[i - 1])]
  IN  SelectSeq(all, LAMBDA e : e.num # 0)

insert_entry(s, entry) ==
  [s EXCEPT !.n_solved_cells = @ + 1,
            !.grid[entry.cell] = entry.num,
            !.cell_poss_digits[entry.cell] = MaskNONE,
            !.zone_solved_digits[row_zone(entry.cell)] = @ \cup {entry.num},
            !.zone_solved_digits[col_zone(entry.cell)] = @ \cup {entry.num},
            !.zone_solved_digits[field_zone(entry.cell)] = @ \cup {entry.num}]

\* Results of the fallible operations: ok is FALSE for Err(Unsolvable); s and
\* stack are the solver and the work list as the operation leaves them.
Res(ok, s, stack) == [ok |-> ok, s |-> s, stack |-> stack]

\* A loop of the source. Body is one iteration, on a loop state whose field
\* done says that the loop was left (its condition failed, or a break or a
\* return was taken); n bounds the iterations. The iterations are applied in
\* order, split into halves so that the evaluation stays shallow.
RECURSIVE Loop(_, _, _)
Loop(Body(_), st, n) ==
  IF st.done THEN st
  ELSE IF n <= 1 THEN Body(st)
  ELSE Loop(Body, Loop(Body, st, n \div 2), n - (n \div 2))

\* The result of a loop that was left; a loop still running after its bound
\* has no value (no loop of the solver gets there, see MaxIterations).
LoopRes(st) == IF st.done THEN Res(st.ok, st.s, st.stack) ELSE CHOOSE x \in {} : TRUE

\* Every pop of the work list follows a push: the list starts with at most
\* N_CELLS entries, and each of the at most N_CELLS insertions pushes at most
\* one entry per neighbour (20); a scan for hidden singles pushes at most 9.
MaxIterations == N_CELLS * 22 + 9

\* faulty variant of remove_impossibilities: a cell left without candidates
\* is not reported
RemoveUnreported(s, cell, impossible, stack) ==
  LET cell_mask == s.cell_poss_digits[cell] \ impossible
      s1 == [s EXCEPT !.cell_poss_digits[cell] = cell_mask]
  IN  IF Cardinality(cell_mask) = 1
        THEN Res(TRUE, s1, Append(stack, Entry(cell, one_possibility(cell_mask))))
      ELSE Res(TRUE, s1, stack)

remove_impossibilities(s, cell, impossible, stack) ==
  LET cell_mask == s.cell_poss_digits[cell] \ impossible
      s1 == [s EXCEPT !.cell_poss_digits[cell] = cell_mask]
      u == unique_num(cell_mask)
  IN  IF u = "Err" THEN Res(FALSE, s1, stack)
      ELSE IF u = "Some"
        THEN Res(TRUE, s1, Append(stack, Entry(cell, one_possibility(cell_mask))))
      ELSE Res(TRUE, s1, stack)

\* one iteration of the loop over the neighbours of an inserted entry
SinglyNeighbour(st, entry) ==
  LET nbs == neighbours[entry.cell]
      cell == nbs[st.i]
      last == st.i >= Len(nbs)
  IN  IF entry.num \in st.s.cell_poss_digits[cell]
        THEN LET r == remove_impossibilities(st.s, cell, {entry.num}, st.stack)
             IN  [done |-> ~r.ok \/ last, ok |-> r.ok, s |-> r.s, stack |-> r.stack,
                  i |-> st.i + 1]
        ELSE [st EXCEPT !.done = last, !.i = @ + 1]

SINGLY_MAX == 4

\* faulty variant of SinglyStep: the entry is not tested against the
\* candidates of its cell
SinglyNoCheck(st) ==
  IF st.stack = <<>> THEN [st EXCEPT !.done = TRUE]
  ELSE LET entry == st.stack[Len(st.stack)]
           rest == SubSeq(st.stack, 1, Len(st.stack) - 1)
       IN  IF st.s.cell_poss_digits[entry.cell] = MaskNONE
             THEN [st EXCEPT !.stack = rest]
           ELSE LET r == Loop(LAMBDA x : SinglyNeighbour(x, entry),
                              [done |-> FALSE, ok |-> TRUE, s |-> insert_entry(st.s, entry),
                               stack |-> rest, i |-> 1],
                              Len(neighbours[entry.cell]))
                IN  [done |-> ~r.ok \/ Len(r.stack) > SINGLY_MAX, ok |-> r.ok,
                     s |-> r.s, stack |-> r.stack]

\* one iteration of the while loop of insert_entries_singly
SinglyStep(st) ==
  IF st.stack = <<>> THEN [st EXCEPT !.done = TRUE]
  ELSE LET entry == st.stack[Len(st.stack)]
           rest == SubSeq(st.stack, 1, Len(st.stack) - 1)
       IN  IF st.s.cell_poss_digits[entry.cell] = MaskNONE
             THEN [st EXCEPT !.stack = rest]
           ELSE IF entry.num \notin st.s.cell_poss_digits[entry.cell]
             THEN [done |-> TRUE, ok |-> FALSE, s |-> st.s, stack |-> rest]
           ELSE LET r == Loop(LAMBDA x : SinglyNeighbour(x, entry),
                              [done |-> FALSE, ok |-> TRUE, s |-> insert_entry(st.s, entry),
                               stack |-> rest, i |-> 1],
                              Len(neighbours[entry.cell]))
                IN  [done |-> ~r.ok \/ Len(r.stack) > SINGLY_MAX, ok |-> r.ok,
                     s |-> r.s, stack |-> r.stack]

insert_entries_singly(s, stack) ==
  LoopRes(Loop(SinglyStep, [done |-> FALSE, ok |-> TRUE, s |-> s, stack |-> stack],
               MaxIterations))

\* faulty variant of BatchDrainStep: the test of the zone masks is left out
BatchDrainNoCheck(st, entries) ==
  IF st.i > Len(entries) THEN [st EXCEPT !.done = TRUE]
  ELSE LET entry == entries[st.i]
       IN  IF st.s.cell_poss_digits[entry.cell] = MaskNONE
             THEN [st EXCEPT !.i = @ + 1]
           ELSE [st EXCEPT !.s = insert_entry(st.s, entry), !.i = @ + 1]

\* one iteration of the drain loop of batch_insert_entries, on entry i of the
\* drained list; an early return drops the rest of the list
BatchDrainStep(st, entries) ==
  IF st.i > Len(entries) THEN [st EXCEPT !.done = TRUE]
  ELSE LET entry == entries[st.i]
       IN  IF st.s.cell_poss_digits[entry.cell] = MaskNONE
             THEN [st EXCEPT !.i = @ + 1]
           ELSE IF \/ entry.num \in st.s.zone_solved_digits[row_zone(entry.cell)]
                   \/ entry.num \in st.s.zone_solved_digits[col_zone(entry.cell)]
                   \/ entry.num \in st.s.zone_solved_digits[field_zone(entry.cell)]
             THEN [st EXCEPT !.done = TRUE, !.ok = FALSE]
           ELSE [st EXCEPT !.s = insert_entry(st.s, entry), !.i = @ + 1]

\* one iteration of the loop that updates the cell possibilities from the
\* zone masks
BatchUpdateStep(st) ==
  IF st.i >= N_CELLS THEN [st EXCEPT !.done = TRUE]
  ELSE IF st.s.cell_poss_digits[st.i] = MaskNONE THEN [st EXCEPT !.i = @ + 1]
  ELSE LET zones_mask == st.s.zone_solved_digits[row_zone(st.i)]
                         \cup st.s.zone_solved_digits[col_zone(st.i)]
                         \cup st.s.zone_solved_digits[field_zone(st.i)]
           r == remove_impossibilities(st.s, st.i, zones_mask, st.stack)
       IN  [done |-> ~r.ok, ok |-> r.ok, s |-> r.s, stack |-> r.stack, i |-> st.i + 1]

BatchUpdate(d) ==
  IF d.ok
    THEN LoopRes(Loop(BatchUpdateStep,
                      [done |-> FALSE, ok |-> TRUE, s |-> d.s, stack |-> <<>>, i |-> 0],
                      N_CELLS + 1))
    ELSE d

batch_insert_entries(s, stack) ==
  BatchUpdate(LoopRes(Loop(LAMBDA x : BatchDrainStep(x, stack),
                           [done |-> FALSE, ok |-> TRUE, s |-> s, stack |-> <<>>, i |-> 1],
                           Len(stack) + 1)))

\* one iteration of the loop of insert_entries
InsertStep(st) ==
  IF Len(st.stack) = 0 THEN [st EXCEPT !.done = TRUE]
  ELSE LET r == IF Len(st.stack) <= SINGLY_MAX
                  THEN insert_entries_singly(st.s, st.stack)
                  ELSE batch_insert_entries(st.s, st.stack)
       IN  [done |-> ~r.ok, ok |-> r.ok, s |-> r.s, stack |-> r.stack]

insert_entries(s, stack) ==
  LoopRes(Loop(InsertStep, [done |-> FALSE, ok |-> TRUE, s |-> s, stack |-> stack],
               MaxIterations))

is_solved(s) == s.n_solved_cells = N_CELLS

\* one iteration of the second loop over the cells of a zone: the hidden
\* singles still to place are st.singles
HiddenCollectStep(st, zone) ==
  IF st.i > 9 THEN [st EXCEPT !.done = TRUE]
  ELSE LET cell == cells_of_zone[zone][st.i]
           m == st.s.cell_poss_digits[cell] \cap st.singles
           u == unique_num(m)
       IN  IF u = "Err" THEN [st EXCEPT !.i = @ + 1]
           ELSE IF u = "None" THEN [st EXCEPT !.done = TRUE, !.ok = FALSE]
           ELSE LET num == one_possibility(m)
                IN  [st EXCEPT !.stack = Append(@, Entry(cell, num)),
                               !.singles = @ \ {num},
                               !.done = (st.singles \ {num} = MaskNONE),
                               !.i = @ + 1]

\* one iteration of the first loop over the cells of a zone
HiddenScanStep(st, zone) ==
  IF st.i > 9 THEN [st EXCEPT !.done = TRUE]
  ELSE LET poss_digits == st.s.cell_poss_digits[cells_of_zone[zone][st.i]]
       IN  [st EXCEPT !.multiple_unsolved = @ \cup (st.unsolved \cap poss_digits),
                      !.unsolved = @ \cup poss_digits,
                      !.i = @ + 1]

HiddenScan(s, zone) ==
  Loop(LAMBDA x : HiddenScanStep(x, zone),
       [done |-> FALSE, s |-> s, unsolved |-> MaskNONE, multiple_unsolved |-> MaskNONE,
        i |-> 1],
       10)

\* the body of the loop over the zones, on the masks sc of the first scan;
\* the loop is left on an error and once a zone has hidden singles
HiddenZoneOn(st, sc) ==
  IF sc.unsolved \cup st.s.zone_solved_digits[st.zone] # MaskALL
    THEN [st EXCEPT !.done = TRUE, !.ok = FALSE]
  ELSE IF sc.unsolved \ sc.multiple_unsolved = MaskNONE
    THEN [st EXCEPT !.zone = @ + 1]
  ELSE LET r == Loop(LAMBDA x : HiddenCollectStep(x, st.zone),
                     [done |-> FALSE, ok |-> TRUE, s |-> st.s, stack |-> st.stack,
                      singles |-> sc.unsolved \ sc.multiple_unsolved, i |-> 1],
                     10)
       IN  [done |-> TRUE, ok |-> r.ok, s |-> r.s, stack |-> r.stack, zone |-> st.zone]

HiddenZoneStep(st) ==
  IF st.zone >= N_ZONES THEN [st EXCEPT !.done = TRUE]
  ELSE HiddenZoneOn(st, HiddenScan(st.s, st.zone))

find_hidden_singles(s, stack) ==
  LoopRes(Loop(HiddenZoneStep,
               [done |-> FALSE, ok |-> TRUE, s |-> s, stack |-> stack, zone |-> 0],
               N_ZONES + 1))

\* one iteration of the scan of find_cell_min_poss
MinPossStep(st, s) ==
  LET n == n_possibilities(s.cell_poss_digits[st.cell])
      better == n > 0 /\ n < st.min_possibilities
      best1 == IF better THEN st.cell ELSE st.best_cell
      min1 == IF better THEN n ELSE st.min_possibilities
  IN  IF (better /\ n = 2) \/ st.cell = s.last_cell
        THEN [st EXCEPT !.done = TRUE, !.best_cell = best1, !.min_possibilities = min1]
        ELSE [done |-> FALSE, cell |-> IF st.cell = 80 THEN 0 ELSE st.cell + 1,
              min_possibilities |-> min1, best_cell |-> best1]

MinPossScan(s) ==
  Loop(LAMBDA x : MinPossStep(x, s),
       [done |-> FALSE, cell |-> (s.last_cell + 1) % 81, min_possibilities |-> 10,
        best_cell |-> 100],
       N_CELLS)

MinPossOn(s, r) == [s |-> [s EXCEPT !.last_cell = r.cell], best_cell |-> r.best_cell]

find_cell_min_poss(s) == MinPossOn(s, MinPossScan(s))

GuessOn(r) ==
  [s |-> r.s,
   entry |-> Entry(r.best_cell, one_possibility(r.s.cell_poss_digits[r.best_cell]))]

find_good_guess(s) == GuessOn(find_cell_min_poss(s))

\* choice is the value drawn by gen_range(0, n_possibilities)
RandomGuessOn(r, choice) ==
  [s |-> r.s,
   entry |-> Entry(r.best_cell, MaskNth(r.s.cell_poss_digits[r.best_cell], choice))]

(***************************************************************************)
(* Sudoku: the public operations                                           *)
(***************************************************************************)
\* faulty variant of Sudoku_is_solved: the entries are inserted with full
\* propagation
IsSolvedPropagating(sudoku) ==
  is_solved(insert_entries(SolverNew, stack_from_sudoku(sudoku)).s)

Sudoku_is_solved(sudoku) ==
  is_solved(batch_insert_entries(SolverNew, stack_from_sudoku(sudoku)).s)

MIN_CLUES == 17

MIN_DIGITS == 8

UNIQUE_LIMIT == 2

\* faulty variant of UniqueRejects: the distinct digits are not counted
UniqueRejectsClues(sudoku) == Cardinality({c \in Cells : sudoku[c] # 0}) < MIN_CLUES

\* the early return of solve_unique
UniqueRejects(sudoku) ==
  LET n_clues == Cardinality({c \in Cells : sudoku[c] # 0})
      nums_contained == {sudoku[c] : c \in {k \in Cells : sudoku[k] # 0}}
  IN  n_clues < MIN_CLUES \/ Cardinality(nums_contained) < MIN_DIGITS

\* one pass of the search loop up to the guess: insert_entries, is_solved,
\* find_hidden_singles and the test of the stack
PassOutcome(kind, r) == [kind |-> kind, s |-> r.s, stack |-> r.stack]

SolvePassHidden(h) ==
  IF ~h.ok THEN PassOutcome("err", h)
  ELSE IF h.stack # <<>> THEN PassOutcome("continue", h)
  ELSE PassOutcome("guess", h)

SolvePassInserted(r) ==
  IF ~r.ok THEN PassOutcome("err", r)
  ELSE IF is_solved(r.s) THEN PassOutcome("solved", r)
  ELSE SolvePassHidden(find_hidden_singles(r.s, r.stack))

SolvePass(s, stack) == SolvePassInserted(insert_entries(s, stack))

\* faulty variants of Retract: nothing is removed; the highest candidate is
\* removed in place of the guessed digit; all candidates are removed
RetractNothing(s, entry) == remove_impossibilities(s, entry.cell, MaskNONE, <<>>)

RetractOther(s, entry) ==
  remove_impossibilities(s, entry.cell,
    {d \in s.cell_poss_digits[entry.cell] : \A e \in s.cell_poss_digits[entry.cell] : e <= d},
    <<>>)

RetractCell(s, entry) == remove_impossibilities(s, entry.cell, MaskALL, <<>>)

\* the retraction of a guess after the recursive call returned and the stack
\* was cleared
Retract(s, entry) == remove_impossibilities(s, entry.cell, {entry.num}, <<>>)

(***************************************************************************)
(* Inputs                                                                  *)
(***************************************************************************)
\* a solved grid, by rows
SolvedRows ==
  << 5,3,4,6,7,8,9,1,2,  6,7,2,1,9,5,3,4,8,  1,9,8,3,4,2,5,6,7,
     8,5,9,7,6,1,4,2,3,  4,2,6,8,5,3,7,9,1,  7,1,3,9,2,4,8,5,6,
     9,6,1,5,3,7,2,8,4,  2,8,7,4,1,9,6,3,5,  3,4,5,2,8,6,1,7,9 >>

SolvedGrid == [c \in Cells |-> SolvedRows[c + 1]]

\* bounds of the input family
MaxLimit == 3

MaxLevel == 10

MaxEdit == 2

MaxZeroLevel == 3

LevelStep == 8

EditCell == 40

\* cell c is blanked at level n when its rank in a scattered order is below n
BlankRank(c) == (c * 16 + 5) % N_CELLS

\* SolvedGrid with the cells of rank below level and the digits above keep
\* blanked, then cell EditCell set to e unless e is 0
InputGrid(level, keep, e) ==
  [c \in Cells |->
     IF c = EditCell /\ e # 0 THEN e
     ELSE IF BlankRank(c) < level \/ SolvedGrid[c] > keep THEN 0
     ELSE SolvedGrid[c]]

GridOfRows(rows) == [c \in Cells |-> rows[c + 1]]

\* a grid with three completions on which the search guesses, finds hidden
\* singles after a retraction and guesses again
GuessAgainRows ==
  << 0,3,0,0,0,0,0,1,2,  0,7,0,0,9,0,0,0,0,  0,0,0,0,0,0,0,0,0,
     8,5,0,7,6,0,0,0,3,  0,0,0,8,5,0,0,0,1,  0,0,3,0,0,0,0,0,6,
     0,0,0,0,0,7,0,0,4,  0,8,0,0,0,9,0,0,0,  0,0,5,0,0,0,0,0,9 >>

\* a grid on which the hidden singles placed after a retraction leave another
\* cell with as few candidates as the cell of the retracted guess
HiddenAfterRetractRows ==
  << 0,0,0,0,0,2,8,0,3,  0,0,0,0,0,0,0,0,2,  1,2,3,0,8,0,5,0,0,
     0,4,9,2,0,0,3,0,5,  0,7,1,3,5,9,0,0,8,  5,0,2,8,0,0,0,0,0,
     0,0,0,0,0,8,0,0,1,  0,0,0,7,2,0,0,0,0,  0,0,0,1,0,3,7,0,0 >>

\* the same on a grid without completion
HiddenAfterRetractNoneRows ==
  << 0,0,0,0,0,2,8,0,3,  0,0,0,0,5,6,0,0,2,  1,2,8,0,0,0,5,0,0,
     0,0,0,0,2,0,3,0,5,  0,0,0,3,6,4,2,0,8,  2,0,0,0,0,0,0,0,0,
     0,0,0,0,0,8,0,0,6,  0,0,0,0,0,0,0,0,0,  0,0,0,2,3,0,7,0,0 >>

SpecialInputs ==
  {GridOfRows(GuessAgainRows), GridOfRows(HiddenAfterRetractRows),
   GridOfRows(HiddenAfterRetractNoneRows)}

(***************************************************************************)
(* The public operations and the search drivers as a state machine         *)
(***************************************************************************)
VARIABLES
  op,         \* the public operation called
  sudoku,     \* its input grid (generate_filled: the shuffled first row)
  limit,      \* the limit of the counting search
  rng,        \* the random number generator of generate_filled
  pc,         \* "entry", "search" or "done"
  frames,     \* the activations of the recursive search, outermost first
  stack,      \* the work list shared by all activations
  solutions,  \* the solutions vector of the counting search
  ret,        \* what the activation that returned last returned
  result,     \* the value the public operation returned
  placed      \* history: the number of digits the last pass placed

vars == <<op, sudoku, limit, rng, pc, frames, stack, solutions, ret, result, placed>>

NoEntry == Entry(100, 0)

\* An activation: its solver, where it stands ("loop": at the head of the
\* loop, "call": in the recursive call), the guess it is exploring and the
\* guess it explored before that one.
Frame(s, fpc, entry, prev) == [s |-> s, pc |-> fpc, entry |-> entry, prev |-> prev]

Top == frames[Len(frames)]

Popped == SubSeq(frames, 1, Len(frames) - 1)

Running == pc = "search" /\ frames # <<>>

Counting == op \in {"solve_at_most", "solve_unique"}

RetNone == [kind |-> "none"]

RetErr == [kind |-> "Err"]

RetOk == [kind |-> "Ok"]

RetGrid(grid) == [kind |-> "Ok", grid |-> grid]

InitCall(o) ==
  /\ op = o
  /\ pc = "entry"
  /\ frames = <<>>
  /\ stack = <<>>
  /\ solutions = <<>>
  /\ ret = RetNone
  /\ result = [kind |-> "none"]
  /\ placed = 0

\* the digits placed by the pass with outcome p of the innermost activation
PlacedBy(p) == p.s.n_solved_cells - Top.s.n_solved_cells

\* Sudoku::solve_at_most and SudokuSolver::solve_at_most up to the call of
\* _solve_at_most
SolveAtMostStart ==
  /\ pc = "entry" /\ op = "solve_at_most"
  /\ pc' = "search"
  /\ frames' = <<Frame(SolverNew, "loop", NoEntry, NoEntry)>>
  /\ stack' = stack_from_sudoku(sudoku)
  /\ solutions' = <<>>
  /\ placed' = 0
  /\ UNCHANGED <<op, sudoku, limit, rng, ret, result>>

\* a pass of _solve_at_most in which insert_entries or find_hidden_singles
\* fails: the activation returns Err
PassErrOn(p) ==
  /\ p.kind = "err"
  /\ placed' = PlacedBy(p)
  /\ frames' = Popped
  /\ stack' = p.stack
  /\ ret' = RetErr
  /\ UNCHANGED <<op, sudoku, limit, rng, pc, solutions, result>>

PassErr ==
  /\ Running /\ Counting /\ Top.pc = "loop"
  /\ PassErrOn(SolvePass(Top.s, stack))

\* a pass that solves the grid: the grid is pushed and the activation returns Ok
PassSolvedOn(p) ==
  /\ p.kind = "solved"
  /\ placed' = PlacedBy(p)
  /\ solutions' = Append(solutions, p.s.grid)
  /\ frames' = Popped
  /\ stack' = p.stack
  /\ ret' = RetOk
  /\ UNCHANGED <<op, sudoku, limit, rng, pc, result>>

PassSolved ==
  /\ Running /\ Counting /\ Top.pc = "loop"
  /\ PassSolvedOn(SolvePass(Top.s, stack))

\* a pass that found hidden singles: continue
PassContinueOn(p) ==
  /\ p.kind = "continue"
  /\ placed' = PlacedBy(p)
  /\ frames' = [frames EXCEPT ![Len(frames)].s = p.s]
  /\ stack' = p.stack
  /\ UNCHANGED <<op, sudoku, limit, rng, pc, solutions, ret, result>>

PassContinue ==
  /\ Running /\ Counting /\ Top.pc = "loop"
  /\ PassContinueOn(SolvePass(Top.s, stack))

\* the guess g is pushed and the search recurses on a clone of the solver
Recurse(g, stk) ==
  /\ frames' = Append([frames EXCEPT ![Len(frames)] = Frame(g.s, "call", g.entry, Top.entry)],
                      Frame(g.s, "loop", NoEntry, NoEntry))
  /\ stack' = Append(stk, g.entry)

\* a pass with no more deductions: guess and recurse
PassGuessOn(p) ==
  /\ p.kind = "guess"
  /\ placed' = PlacedBy(p)
  /\ Recurse(find_good_guess(p.s), p.stack)
  /\ UNCHANGED <<op, sudoku, limit, rng, pc, solutions, ret, result>>

PassGuess ==
  /\ Running /\ Counting /\ Top.pc = "loop"
  /\ PassGuessOn(SolvePass(Top.s, stack))

\* after the recursive call: the stack is cleared and the limit is reached
ResumeLimit ==
  /\ Running /\ Counting /\ Top.pc = "call"
  /\ Len(solutions) = limit
  /\ frames' = Popped
  /\ stack' = <<>>
  /\ ret' = RetOk
  /\ placed' = 0
  /\ UNCHANGED <<op, sudoku, limit, rng, pc, solutions, result>>

\* faulty variant of Retracted: the activation returns after the retraction
RetractedReturns(r) ==
  /\ stack' = r.stack
  /\ frames' = Popped
  /\ ret' = RetErr

\* the guess is retracted and the loop goes on, or the retraction empties the
\* cell and the activation returns Err
Retracted(r) ==
  /\ stack' = r.stack
  /\ IF r.ok
       THEN /\ frames' = [frames EXCEPT ![Len(frames)] = Frame(r.s, "loop", Top.entry, Top.prev)]
            /\ ret' = ret
       ELSE /\ frames' = Popped
            /\ ret' = RetErr

\* after the recursive call: the stack is cleared, the limit is not reached
ResumeRetract ==
  /\ Running /\ Counting /\ Top.pc = "call"
  /\ Len(solutions) # limit
  /\ Retracted(Retract(Top.s, Top.entry))
  /\ placed' = 0
  /\ UNCHANGED <<op, sudoku, limit, rng, pc, solutions, result>>

\* SudokuSolver::solve_at_most returns the solutions
SolveAtMostFinish ==
  /\ pc = "search" /\ frames = <<>> /\ op = "solve_at_most"
  /\ pc' = "done"
  /\ result' = [kind |-> "solutions", list |-> solutions]
  /\ placed' = 0
  /\ UNCHANGED <<op, sudoku, limit, rng, frames, stack, solutions, ret>>

\* solve_unique returns None before any search
SolveUniqueReject ==
  /\ pc = "entry" /\ op = "solve_unique"
  /\ UniqueRejects(sudoku)
  /\ pc' = "done"
  /\ result' = [kind |-> "None"]
  /\ placed' = 0
  /\ UNCHANGED <<op, sudoku, limit, rng, frames, stack, solutions, ret>>

\* solve_unique calls solve_at_most(2)
SolveUniqueStart ==
  /\ pc = "entry" /\ op = "solve_unique"
  /\ ~UniqueRejects(sudoku)
  /\ pc' = "search"
  /\ limit' = UNIQUE_LIMIT
  /\ frames' = <<Frame(SolverNew, "loop", NoEntry, NoEntry)>>
  /\ stack' = stack_from_sudoku(sudoku)
  /\ solutions' = <<>>
  /\ placed' = 0
  /\ UNCHANGED <<op, sudoku, rng, ret, result>>

\* solve_unique reports the solution if exactly one was found
SolveUniqueFinish ==
  /\ pc = "search" /\ frames = <<>> /\ op = "solve_unique"
  /\ pc' = "done"
  /\ result' = IF Len(solutions) = 1 THEN [kind |-> "Some", grid |-> solutions[1]]
               ELSE [kind |-> "None"]
  /\ placed' = 0
  /\ UNCHANGED <<op, sudoku, limit, rng, frames, stack, solutions, ret>>

\* Sudoku::is_solved
IsSolvedCall ==
  /\ pc = "entry" /\ op = "is_solved"
  /\ pc' = "done"
  /\ result' = [kind |-> "bool", value |-> Sudoku_is_solved(sudoku)]
  /\ placed' = 0
  /\ UNCHANGED <<op, sudoku, limit, rng, frames, stack, solutions, ret>>

\* the value gen_range(0, n) draws: the next element of the stream of rng
gen_range(n) == (rng.seed + rng.draws) % n

\* generate_filled up to the call of _randomized_solve_one: the shuffled
\* permutation is the first row of sudoku
GenerateStart ==
  /\ pc = "entry" /\ op = "generate_filled"
  /\ pc' = "search"
  /\ frames' = <<Frame(SolverNew, "loop", NoEntry, NoEntry)>>
  /\ stack' = [i \in 1..9 |-> Entry(i - 1, sudoku[i - 1])]
  /\ placed' = 0
  /\ UNCHANGED <<op, sudoku, limit, rng, solutions, ret, result>>

\* a pass of _randomized_solve_one that fails
RandPassErr ==
  /\ Running /\ op = "generate_filled" /\ Top.pc = "loop"
  /\ PassErrOn(SolvePass(Top.s, stack))

\* a pass that solves the grid: the activation returns Ok(grid)
RandSolvedOn(p) ==
  /\ p.kind = "solved"
  /\ placed' = PlacedBy(p)
  /\ frames' = Popped
  /\ stack' = p.stack
  /\ ret' = RetGrid(p.s.grid)
  /\ UNCHANGED <<op, sudoku, limit, rng, pc, solutions, result>>

RandPassSolved ==
  /\ Running /\ op = "generate_filled" /\ Top.pc = "loop"
  /\ RandSolvedOn(SolvePass(Top.s, stack))

RandPassContinue ==
  /\ Running /\ op = "generate_filled" /\ Top.pc = "loop"
  /\ PassContinueOn(SolvePass(Top.s, stack))

\* the number of candidates of the cell find_cell_min_poss selects
GuessRange(r) == n_possibilities(r.s.cell_poss_digits[r.best_cell])

RandGuessAt(r) == RandomGuessOn(r, gen_range(GuessRange(r)))

find_good_random_guess(s) == RandGuessAt(find_cell_min_poss(s))

\* a pass with no more deductions: a random guess, and recurse
RandGuessOn(p) ==
  /\ p.kind = "guess"
  /\ placed' = PlacedBy(p)
  /\ Recurse(find_good_random_guess(p.s), p.stack)
  /\ rng' = [rng EXCEPT !.draws = @ + 1]
  /\ UNCHANGED <<op, sudoku, limit, pc, solutions, ret, result>>

RandPassGuess ==
  /\ Running /\ op = "generate_filled" /\ Top.pc = "loop"
  /\ RandGuessOn(SolvePass(Top.s, stack))

\* the recursive call returned Ok: the activation returns it
RandResumeOk ==
  /\ Running /\ op = "generate_filled" /\ Top.pc = "call"
  /\ ret.kind = "Ok"
  /\ frames' = Popped
  /\ placed' = 0
  /\ UNCHANGED <<op, sudoku, limit, rng, pc, stack, solutions, ret, result>>

\* the recursive call returned Err: the stack is cleared and the guess
\* retracted
RandResumeRetract ==
  /\ Running /\ op = "generate_filled" /\ Top.pc = "call"
  /\ ret.kind = "Err"
  /\ Retracted(Retract(Top.s, Top.entry))
  /\ placed' = 0
  /\ UNCHANGED <<op, sudoku, limit, rng, pc, solutions, result>>

\* the unwrap of generate_filled
GenerateFinish ==
  /\ pc = "search" /\ frames = <<>> /\ op = "generate_filled"
  /\ pc' = "done"
  /\ result' = IF ret.kind = "Ok" THEN [kind |-> "grid", grid |-> ret.grid]
               ELSE [kind |-> "panic"]
  /\ placed' = 0
  /\ UNCHANGED <<op, sudoku, limit, rng, frames, stack, solutions, ret>>

NoRng == [seed |-> 0, draws |-> 0]

\* the calls of solve_at_most: a grid of the family with a limit (limit 0 on
\* the grids with few blanks only), or a special grid
InitCount ==
  /\ InitCall("solve_at_most")
  /\ rng = NoRng
  /\ \/ \E i \in 0..MaxLevel, keep \in 7..9, e \in 0..MaxEdit :
          /\ sudoku = InputGrid(LevelStep * i, keep, e)
          /\ limit \in (IF i <= MaxZeroLevel THEN 0 ELSE 1)..MaxLimit
     \/ /\ sudoku \in SpecialInputs
        /\ limit \in 1..MaxLimit

Init == InitCount

Next ==
  \/ SolveAtMostStart
  \/ PassErr
  \/ PassSolved
  \/ PassContinue
  \/ PassGuess
  \/ ResumeLimit
  \/ ResumeRetract
  \/ SolveAtMostFinish

Spec == Init /\ [][Next]_vars

\* the calls of solve_unique
InitUnique ==
  /\ InitCall("solve_unique")
  /\ rng = NoRng
  /\ limit = 0
  /\ \/ \E i \in 0..MaxLevel, keep \in 7..9, e \in 0..MaxEdit :
          sudoku = InputGrid(LevelStep * i, keep, e)
     \/ sudoku \in SpecialInputs

NextUnique ==
  \/ SolveUniqueReject
  \/ SolveUniqueStart
  \/ PassErr
  \/ PassSolved
  \/ PassContinue
  \/ PassGuess
  \/ ResumeLimit
  \/ ResumeRetract
  \/ SolveUniqueFinish

SpecUnique == InitUnique /\ [][NextUnique]_vars

\* the calls of is_solved: a grid with at most MaxSolvedLevel steps of blanks
\* and any cell set to any value
MaxSolvedLevel == 1

SetCell(grid, cell, v) == [grid EXCEPT ![cell] = v]

InitIsSolved ==
  /\ InitCall("is_solved")
  /\ rng = NoRng
  /\ limit = 0
  /\ \E i \in 0..MaxSolvedLevel, cell \in Cells, v \in 0..9 :
       sudoku = SetCell(InputGrid(i, 9, 0), cell, v)

NextIsSolved == IsSolvedCall

SpecIsSolved == InitIsSolved /\ [][NextIsSolved]_vars

\* the calls of generate_filled: a permutation on the first row and a stream
\* of random numbers
MaxPerm == 3

MaxSeed == 5

PermMult == <<1, 2, 4, 5, 7, 8>>

Perm(r) == [i \in 1..9 |-> (((i - 1) * PermMult[(r % 6) + 1] + r) % 9) + 1]

FirstRow(perm) == [c \in Cells |-> IF c < 9 THEN perm[c + 1] ELSE 0]

InitGenerate ==
  /\ InitCall("generate_filled")
  /\ limit = 0
  /\ \E r \in 0..MaxPerm : sudoku = FirstRow(Perm(r))
  /\ \E seed \in 0..MaxSeed : rng = [seed |-> seed, draws |-> 0]

NextGenerate ==
  \/ GenerateStart
  \/ RandPassErr
  \/ RandPassSolved
  \/ RandPassContinue
  \/ RandPassGuess
  \/ RandResumeOk
  \/ RandResumeRetract
  \/ GenerateFinish

SpecGenerate == InitGenerate /\ [][NextGenerate]_vars

\* both search drivers
InitSearch == InitCount \/ InitGenerate

NextSearch == Next \/ NextGenerate

SpecSearch == InitSearch /\ [][NextSearch]_vars

(***************************************************************************)
(* insert_entries followed one iteration at a time, on the solver and the  *)
(* work list a search driver calls it with. The drivers above take the     *)
(* call as a part of a pass; here the call is entered from the head of a   *)
(* pass and runs to its return. Its frame stands at "dispatch" (the match  *)
(* on the length of the list), "singly" (the while loop of                 *)
(* insert_entries_singly), "drain" (the loop of batch_insert_entries over  *)
(* the drained list, of which stack holds the entries not yet visited) or  *)
(* "returned"; its entry is the entry taken last.                          *)
(***************************************************************************)
\* a grid with completions on which the eager path, in a branch of a wrong
\* guess, takes an entry whose cell holds another digit
DroppedEagerRows ==
  << 0,0,0,0,7,0,9,0,2,  0,0,0,0,0,0,0,0,0,  0,9,0,0,4,2,0,0,0,
     0,0,0,7,6,1,0,2,0,  0,0,0,8,0,0,0,0,0,  7,1,0,0,0,0,8,0,6,
     0,0,1,5,0,0,2,0,4,  0,0,7,0,1,9,6,0,0,  3,0,0,2,0,0,0,5,9 >>

\* a grid without completion on which the batch path takes an entry whose
\* cell was filled with another digit on the eager path
DroppedBatchRows ==
  << 5,3,0,0,8,0,0,0,0,  0,0,0,0,0,0,0,0,8,  0,9,8,0,0,2,0,6,0,
     0,0,0,7,0,1,4,0,0,  0,0,6,0,5,3,0,9,0,  7,0,3,0,2,0,8,0,0,
     0,0,0,5,3,0,0,0,0,  0,8,7,0,0,0,0,0,5,  3,5,0,2,0,6,0,0,0 >>

\* a grid on which the eager path takes an entry of an empty cell whose digit
\* is no longer possible there
NotPossibleRows ==
  << 0,0,4,0,7,0,9,0,2,  6,0,2,0,0,5,3,4,0,  0,9,0,0,0,0,0,0,0,
     0,0,9,0,0,0,0,2,3,  0,0,0,0,5,0,0,9,0,  0,0,3,9,0,0,0,5,0,
     0,0,1,0,3,0,0,0,0,  0,0,0,4,0,0,6,0,0,  3,4,6,2,0,0,0,0,7 >>

\* a grid on which the eager path takes an entry whose cell holds its digit
RepeatedEagerRows ==
  << 0,0,0,0,0,8,0,0,2,  6,0,0,0,9,5,0,0,8,  1,9,0,0,0,2,0,0,7,
     8,0,9,0,0,0,0,0,3,  0,0,0,0,0,0,7,0,0,  7,0,0,9,0,0,0,5,0,
     9,0,0,0,0,7,2,0,1,  0,0,0,4,0,0,0,3,0,  0,4,5,0,0,6,0,7,9 >>

\* the same on the batch path
RepeatedBatchRows ==
  << 5,0,4,0,0,0,9,0,0,  0,0,0,0,9,5,0,1,0,  0,0,0,0,0,0,5,0,7,
     8,0,0,0,7,1,4,2,0,  0,0,0,0,5,0,7,0,0,  0,0,3,0,0,0,0,5,6,
     9,6,1,0,0,7,0,0,0,  2,0,0,4,0,9,0,3,0,  0,4,0,0,8,0,1,7,0 >>

MaxInsertLimit == 2

InsertInputs ==
  {GridOfRows(DroppedEagerRows), GridOfRows(DroppedBatchRows),
   GridOfRows(NotPossibleRows), GridOfRows(RepeatedEagerRows),
   GridOfRows(RepeatedBatchRows)}

Inserting == pc = "insert" /\ frames # <<>>

\* self.insert_entries(stack) at the head of a pass of either driver
InsertEntriesCall ==
  /\ Running /\ Top.pc = "loop"
  /\ pc' = "insert"
  /\ frames' = <<Frame(Top.s, "dispatch", NoEntry, NoEntry)>>
  /\ ret' = RetNone
  /\ placed' = 0
  /\ UNCHANGED <<op, sudoku, limit, rng, stack, solutions, result>>

\* the match on stack.len(): return Ok, the eager path or the batch path
InsertDispatch ==
  /\ Inserting /\ Top.pc = "dispatch"
  /\ IF Len(stack) = 0
       THEN /\ frames' = <<Frame(Top.s, "returned", Top.entry, NoEntry)>>
            /\ ret' = RetOk
       ELSE /\ frames' = <<Frame(Top.s, IF Len(stack) <= SINGLY_MAX THEN "singly" ELSE "drain",
                                 Top.entry, NoEntry)>>
            /\ ret' = ret
  /\ UNCHANGED <<op, sudoku, limit, rng, pc, stack, solutions, result, placed>>

\* what an iteration with loop state r leaves: Err returns from
\* insert_entries, a loop that was left goes back to the match
InsertAfter(r, entry, stk, again) ==
  /\ frames' = <<Frame(r.s, IF ~r.ok THEN "returned" ELSE IF r.done THEN "dispatch" ELSE again,
                       entry, NoEntry)>>
  /\ stack' = stk
  /\ ret' = IF r.ok THEN ret ELSE RetErr
  /\ placed' = r.s.n_solved_cells - Top.s.n_solved_cells
  /\ UNCHANGED <<op, sudoku, limit, rng, pc, solutions, result>>

InsertSinglyOn(r) ==
  InsertAfter(r, IF stack = <<>> THEN Top.entry ELSE stack[Len(stack)], r.stack, "singly")

\* one iteration of the while loop of insert_entries_singly
InsertSinglyTake ==
  /\ Inserting /\ Top.pc = "singly"
  /\ InsertSinglyOn(SinglyStep([done |-> FALSE, ok |-> TRUE, s |-> Top.s, stack |-> stack]))

InsertBatchOn(r) ==
  InsertAfter([r EXCEPT !.done = FALSE], stack[1], IF r.ok THEN Tail(stack) ELSE <<>>, "drain")

\* one iteration of the drain loop of batch_insert_entries; the early return
\* drops the entries not yet visited
InsertBatchTake ==
  /\ Inserting /\ Top.pc = "drain" /\ stack # <<>>
  /\ InsertBatchOn(BatchDrainStep([done |-> FALSE, ok |-> TRUE, s |-> Top.s, stack |-> <<>>,
                                   i |-> 1], stack))

InsertUpdateOn(r) ==
  InsertAfter([done |-> TRUE, ok |-> r.ok, s |-> r.s], Top.entry, r.stack, "dispatch")

\* the drained list is exhausted: the update of the cell possibilities
InsertBatchUpdate ==
  /\ Inserting /\ Top.pc = "drain" /\ stack = <<>>
  /\ InsertUpdateOn(BatchUpdate(Res(TRUE, Top.s, <<>>)))

\* the calls of the drivers, with the grids on which entries are skipped
InitInsert ==
  \/ InitSearch
  \/ /\ InitCall("solve_at_most")
     /\ rng = NoRng
     /\ sudoku \in InsertInputs
     /\ limit \in 1..MaxInsertLimit

NextInsert ==
  \/ NextSearch
  \/ InsertEntriesCall
  \/ InsertDispatch
  \/ InsertSinglyTake
  \/ InsertBatchTake
  \/ InsertBatchUpdate

SpecInsert == InitInsert /\ [][NextInsert]_vars

(***************************************************************************)
(* Reference definitions: what a completion is, independently of the       *)
(* solver, and an enumeration of the completions of a grid by plain        *)
(* backtracking over its empty cells.                                      *)
(***************************************************************************)
Rows == {{c \in Cells : c \div 9 = r} : r \in 0..8}

Cols == {{c \in Cells : c % 9 = k} : k \in 0..8}

Boxes == {{c \in Cells : (c \div 27) = a /\ ((c % 9) \div 3) = b} : a \in 0..2, b \in 0..2}

Units == Rows \cup Cols \cup Boxes

\* all cells hold a digit and every row, column and box holds every digit
ValidGrid(g) ==
  /\ \A c \in Cells : g[c] \in 1..9
  /\ \A u \in Units : {g[c] : c \in u} = 1..9

IsCompletion(g, input) ==
  /\ ValidGrid(g)
  /\ \A c \in Cells : input[c] # 0 => g[c] = input[c]

Blanks(g) == Cardinality({c \in Cells : g[c] = 0})

Peers == [c \in Cells |-> {x \in Cells : x # c /\ \E u \in Units : c \in u /\ x \in u}]

Fits(g, c, d) == \A x \in Peers[c] : g[x] # d

GivensFit(g) == \A c \in Cells : g[c] # 0 => Fits(g, c, g[c])

EmptyCells(g) == SelectSeq([k \in 1..N_CELLS |-> k - 1], LAMBDA c : g[c] = 0)

\* one step of the backtracking: st.i is the position in the empty cells,
\* st.from the least digit still to try there
RefBack(st, empties) ==
  IF st.i = 1 THEN [st EXCEPT !.done = TRUE]
  ELSE [st EXCEPT !.i = @ - 1,
                  !.from = st.g[empties[st.i - 1]] + 1,
                  !.g[empties[st.i - 1]] = 0]

RefStep(st, empties, cap) ==
  IF st.i > Len(empties)
    THEN IF Cardinality(st.found \cup {st.g}) >= cap
           THEN [st EXCEPT !.found = @ \cup {st.g}, !.done = TRUE]
           ELSE RefBack([st EXCEPT !.found = @ \cup {st.g}], empties)
  ELSE LET ds == {d \in st.from..9 : Fits(st.g, empties[st.i], d)}
       IN  IF ds = {} THEN RefBack(st, empties)
           ELSE [st EXCEPT !.g[empties[st.i]] = CHOOSE d \in ds : \A e \in ds : d <= e,
                           !.i = @ + 1,
                           !.from = 1]

RefMaxSteps == 100000

RefMaxBlanks == 56

\* the enumeration of the completions of g, stopped after cap completions:
\* done says that it ended within RefMaxSteps steps, and found then holds all
\* completions if they are fewer than cap, and cap of them otherwise
RefSearch(g, cap) ==
  IF ~GivensFit(g) THEN [done |-> TRUE, found |-> {}]
  ELSE Loop(LAMBDA st : RefStep(st, EmptyCells(g), cap),
            [done |-> FALSE, g |-> g, i |-> 1, from |-> 1, found |-> {}],
            RefMaxSteps)

\* two completions known for the grids cut out of SolvedGrid
SwapDigits(g, a, b) ==
  [c \in Cells |-> IF g[c] = a THEN b ELSE IF g[c] = b THEN a ELSE g[c]]

KnownGrids == {SolvedGrid, SwapDigits(SolvedGrid, 8, 9)}

KnownCompletions(input) == {g \in KnownGrids : IsCompletion(g, input)}

Range(seq) == {seq[i] : i \in 1..Len(seq)}

Done == pc = "done"

(***************************************************************************)
(* Properties                                                              *)
(***************************************************************************)
\* C1: every grid in the solutions vector of solve_at_most, at any point of
\* the search and in the returned vector, is a completion of the input: all
\* cells hold a digit 1..9, every row, column and box holds each digit once,
\* and every given of the input is kept.
C1_SolutionsAreCompletions ==
  /\ \A i \in 1..Len(solutions) : IsCompletion(solutions[i], sudoku)
  /\ (Done /\ op = "solve_at_most") => result.list = solutions

\* a search that returned two completions of a grid with at least 40 blanks
C1_Witness ==
  /\ Done /\ op = "solve_at_most"
  /\ Len(result.list) >= 2
  /\ Blanks(sudoku) >= 40

\* C2: solve_at_most returns at most limit solutions, for every limit
\* including 0.
C2_AtMostLimit == (Done /\ op = "solve_at_most") => Len(result.list) <= limit

\* C3: with limit k >= 1 on a grid with m completions, solve_at_most returns
\* all m completions when m < k and exactly k solutions when m >= k. The
\* completions are enumerated by RefSearch on the grids with at most
\* RefMaxBlanks blanks (where the enumeration ends); on every grid, a search
\* that stops below the limit has found every known completion.
C3_Complete ==
  (Done /\ op = "solve_at_most" /\ limit >= 1) =>
    /\ Blanks(sudoku) <= RefMaxBlanks =>
         LET ref == RefSearch(sudoku, limit)
         IN  ref.done =>
               IF Cardinality(ref.found) < limit
                 THEN /\ Range(result.list) = ref.found
                      /\ Len(result.list) = Cardinality(ref.found)
                 ELSE Len(result.list) = limit
    /\ Len(result.list) < limit => KnownCompletions(sudoku) \subseteq Range(result.list)

\* a search that returned both completions of a grid with exactly two, below
\* its limit
C3_Witness ==
  /\ Done /\ op = "solve_at_most"
  /\ Blanks(sudoku) <= RefMaxBlanks /\ Blanks(sudoku) >= 20
  /\ RefSearch(sudoku, limit).done
  /\ Len(result.list) = 2 /\ limit > 2
  /\ Range(result.list) = KnownGrids

\* C4: at every point of the search the solutions vector holds no grid twice.
C4_Distinct ==
  \A i \in 1..Len(solutions), j \in 1..Len(solutions) :
    i # j => solutions[i] # solutions[j]

\* a node that goes on after a retraction with two solutions recorded
C4_Witness ==
  /\ Running /\ op = "solve_at_most"
  /\ Top.pc = "loop" /\ Top.entry # NoEntry
  /\ Len(solutions) >= 2

\* C5: solve_unique returns None without any search when the grid has fewer
\* than 17 givens or fewer than 8 distinct digits; otherwise it searches with
\* limit 2 and returns Some(s) exactly when s is the only completion.
C5_Clues(g) == Cardinality({c \in Cells : g[c] # 0})

C5_DigitsOf(g) == Cardinality({g[c] : c \in Cells} \ {0})

C5_Unique ==
  (Done /\ op = "solve_unique") =>
    IF C5_Clues(sudoku) < 17 \/ C5_DigitsOf(sudoku) < 8
      THEN result.kind = "None" /\ ret.kind = "none" /\ solutions = <<>>
      ELSE /\ limit = 2 /\ ret.kind # "none"
           /\ result.kind \in {"Some", "None"}
           /\ result.kind = "Some" => IsCompletion(result.grid, sudoku)
           /\ Cardinality(KnownCompletions(sudoku)) >= 2 => result.kind = "None"
           /\ Blanks(sudoku) <= RefMaxBlanks =>
                LET ref == RefSearch(sudoku, 2)
                IN  ref.done =>
                      IF Cardinality(ref.found) = 1
                        THEN result.kind = "Some" /\ result.grid \in ref.found
                        ELSE result.kind = "None"

\* solve_unique returned the only completion of a grid with blanks
C5_Witness ==
  /\ Done /\ op = "solve_unique"
  /\ result.kind = "Some"
  /\ Blanks(sudoku) >= 30 /\ Blanks(sudoku) <= RefMaxBlanks
  /\ RefSearch(sudoku, 2).done

\* C6: is_solved is true exactly when the grid has no empty cell and every
\* row, column and box holds each digit once.
C6_IsSolved ==
  (Done /\ op = "is_solved") => (result.value <=> ValidGrid(sudoku))

\* is_solved returned false on a grid whose only empty cell is forced
C6_Witness ==
  /\ Done /\ op = "is_solved"
  /\ result.value = FALSE
  /\ Blanks(sudoku) = 1
  /\ \E d \in 1..9 :
       ValidGrid([sudoku EXCEPT ![CHOOSE c \in Cells : sudoku[c] = 0] = d])

\* C7: generate_filled never fails (the top-level _randomized_solve_one
\* returns Ok) and returns a grid with a digit in every cell and every digit
\* in every row, column and box.
C7_Generated ==
  /\ (op = "generate_filled" /\ pc = "search" /\ frames = <<>>) => ret.kind = "Ok"
  /\ (Done /\ op = "generate_filled") =>
       /\ result.kind = "grid"
       /\ ValidGrid(result.grid)
       /\ \A c \in 0..8 : result.grid[c] = sudoku[c]

\* generate_filled returned a grid after random guesses
C7_Witness ==
  /\ Done /\ op = "generate_filled"
  /\ result.kind = "grid"
  /\ rng.draws >= 2

\* C8 as stated: every pass that neither ends the node nor guesses places at
\* least one digit.
C8_ContinueStep ==
  /\ Running /\ Top.pc = "loop"
  /\ Len(frames') = Len(frames)
  /\ frames'[Len(frames)].pc = "loop"

C8_DepthBound ==
  /\ Len(frames) <= Blanks(sudoku) + 1
  /\ Len(frames) <= N_CELLS + 1
  /\ \A i \in 1..(Len(frames) - 1) :
       \/ frames[i + 1].s = frames[i].s
       \/ frames[i + 1].s.n_solved_cells > frames[i].s.n_solved_cells

C8_PassProgress ==
  C8_ContinueStep =>
    \/ frames'[Len(frames)].s.n_solved_cells > Top.s.n_solved_cells
    \/ stack = <<>> /\ stack' # <<>>

C8_Candidates(s) ==
  Cardinality({x \in Cells \X Digits : x[2] \in s.cell_poss_digits[x[1]]})

\* where an activation stands: at the head of its loop with an empty work
\* list, with entries to insert, in a recursive call, after the call
C8_Phase(fs, stk, i) ==
  IF fs[i].pc = "loop" THEN (IF stk = <<>> THEN 3 ELSE 2)
  ELSE IF i < Len(fs) THEN 1
  ELSE 0

C8_Key(fs, stk, i) ==
  IF i > Len(fs) THEN 4 * 730
  ELSE 4 * C8_Candidates(fs[i].s) + C8_Phase(fs, stk, i)

C8_CallRank ==
  IF pc = "entry" THEN 3
  ELSE IF pc = "done" THEN 0
  ELSE IF frames # <<>> THEN 2
  ELSE 1

\* the activation that makes the step, or the one it returns to
C8_Position == IF Len(frames') < Len(frames) THEN Len(frames') ELSE Len(frames)

C8_Decreases ==
  \/ C8_CallRank' < C8_CallRank
  \/ /\ C8_CallRank' = C8_CallRank
     /\ C8_Position >= 1
     /\ \A j \in 1..(C8_Position - 1) : frames'[j] = frames[j]
     /\ C8_Key(frames', stack', C8_Position) < C8_Key(frames, stack, C8_Position)

C10_SameCell ==
  \A i \in 1..Len(frames) :
    (/\ frames[i].pc = "call"
     /\ frames[i].prev # NoEntry
     /\ frames[i].s.grid[frames[i].prev.cell] = 0)
      => frames[i].entry.cell = frames[i].prev.cell

\* C10: the guess cell is selected anew for every guess. A node that guesses
\* again never repeats the retracted guess, and it guesses on the same cell
\* when it guesses in the pass that follows the retraction (no hidden single
\* was found in between); after hidden singles the cell may be another one.
C10_GuessAgain ==
  /\ Running /\ Counting
  /\ Top.pc = "loop" /\ Top.entry # NoEntry
  /\ Len(frames') = Len(frames) + 1

C10_Reselect ==
  [][C10_GuessAgain =>
       /\ frames'[Len(frames)].entry # Top.entry
       /\ frames'[Len(frames)].prev = Top.entry
       /\ Top.entry.num \notin frames'[Len(frames)].s.cell_poss_digits[Top.entry.cell]
       /\ stack = <<>> => frames'[Len(frames)].entry.cell = Top.entry.cell]_vars

\* a node in its second guess, on the cell of its first guess
C10_Witness ==
  /\ Running /\ op = "solve_at_most"
  /\ Top.pc = "loop" /\ Len(frames) >= 2
  /\ frames[Len(frames) - 1].prev # NoEntry
  /\ frames[Len(frames) - 1].entry.cell = frames[Len(frames) - 1].prev.cell
  /\ frames[Len(frames) - 1].entry.num # frames[Len(frames) - 1].prev.num

(***************************************************************************)
(* C11, C12: the entries insert_entries takes, and the solver states       *)
(***************************************************************************)
\* an iteration of insert_entries that takes an entry from the work list
C11_Take == Inserting /\ Top.pc \in {"singly", "drain"} /\ stack # <<>>

\* the entry it takes: the last one on the eager path, the first one of the
\* drained list on the batch path
C11_Entry == IF Top.pc = "singly" THEN stack[Len(stack)] ELSE stack[1]

C11_InZone(s, e) ==
  \/ e.num \in s.zone_solved_digits[row_zone(e.cell)]
  \/ e.num \in s.zone_solved_digits[col_zone(e.cell)]
  \/ e.num \in s.zone_solved_digits[field_zone(e.cell)]

\* the entry is skipped: the solver is left as it was and nothing fails
C11_Skipped == frames'[1].s = Top.s /\ ret' = ret /\ ret.kind # "Err"

\* insert_entries fails at this entry, which is not placed
C11_Fails(e) == ret' = RetErr /\ frames'[1].pc = "returned" /\ frames'[1].s.grid[e.cell] = 0

\* C11 as claimed: an entry taken from the work list whose digit is not a
\* candidate of its cell, or is placed in the row, column or box of its cell,
\* or whose cell holds another digit, makes insert_entries fail at once, and
\* only an entry that repeats the digit of its cell is skipped.
C11_NeverDropped ==
  [][C11_Take =>
       LET e == C11_Entry
           s == Top.s
       IN  IF s.grid[e.cell] = e.num THEN C11_Skipped
           ELSE (\/ e.num \notin s.cell_poss_digits[e.cell]
                 \/ C11_InZone(s, e)
                 \/ s.grid[e.cell] # 0) => ret' = RetErr]_vars

\* C11 amended: an entry whose cell holds a digit is skipped whatever its
\* digit; an entry of an empty cell whose digit is not a candidate of the cell
\* or is placed in its row, column or box makes insert_entries fail at once
\* on both paths; any other entry is placed.
C11_TakenEntry ==
  [][C11_Take =>
       LET e == C11_Entry
           s == Top.s
       IN  IF s.grid[e.cell] # 0 THEN C11_Skipped
           ELSE IF e.num \notin s.cell_poss_digits[e.cell] \/ C11_InZone(s, e)
             THEN C11_Fails(e)
           ELSE frames'[1].s.grid[e.cell] = e.num]_vars

\* an entry was skipped on a cell that holds another digit, and insert_entries
\* went on without failing
C11_Witness ==
  /\ Inserting /\ Top.entry # NoEntry
  /\ Top.s.grid[Top.entry.cell] \notin {0, Top.entry.num}
  /\ ret.kind # "Err"

\* the solver states that have not reported a contradiction: those of the
\* activations of the drivers, and those of insert_entries until it fails
C12_Solvers ==
  {frames[i].s : i \in {j \in 1..Len(frames) : ~(pc = "insert" /\ ret.kind = "Err")}}

\* C12: in every solver state that has not reported a contradiction, the
\* candidates of a cell are empty exactly when the cell holds a digit, and
\* n_solved_cells is the number of the cells that hold a digit.
C12_MaskEmptyIffPlaced ==
  \A s \in C12_Solvers :
    /\ \A c \in Cells : (s.cell_poss_digits[c] = MaskNONE) <=> (s.grid[c] # 0)
    /\ s.n_solved_cells = Cardinality({c \in Cells : s.grid[c] # 0})

\* an activation below a guess that goes on after a retraction of its own,
\* with filled and empty cells
C12_Witness ==
  /\ Running /\ Len(frames) >= 2
  /\ Top.pc = "loop" /\ Top.entry # NoEntry
  /\ Top.s.cell_poss_digits[Top.entry.cell] # MaskNONE
  /\ Top.s.n_solved_cells > 0 /\ Top.s.n_solved_cells < N_CELLS
====
